---------------------------- MODULE Spec2Model ----------------------------
(***************************************************************************)
(* A model of the chat-export preprocessing pipeline of preprocessor.py:   *)
(* clean_text, detect_date_format, group_messages, extract_message_data    *)
(* and enhance_dataframe, driven by preprocess, followed by the functions  *)
(* that read the DataFrame it returns: validate_dataframe,                 *)
(* get_preprocessing_stats, helper.get_message_length_stats,               *)
(* helper.fetch_busy_users and a second call of enhance_dataframe.         *)
(*                                                                         *)
(* Text is a sequence of one-character strings, so that the regular        *)
(* expressions and the strptime formats of the source are modelled by what *)
(* they do to the characters.  A timestamp is the tuple                    *)
(* <<year, month, day, hour, minute, second>>; NaT is the empty tuple.     *)
(***************************************************************************)
EXTENDS Integers, Sequences, FiniteSets, TLC

VARIABLES
    uploaded_file,      \* preprocess: the argument, a file object or a path
    raw_lines,          \* preprocess: the decoded lines of the upload
    normalized_lines,   \* preprocess: the cleaned, non-empty lines
    date_pattern,       \* preprocess: index of the detected boundary pattern
    date_format,        \* preprocess: the detected strptime format
    idx,                \* group_messages: number of lines consumed by the loop
    grouped,            \* group_messages: the flushed logical messages
    current_msg,        \* group_messages: the accumulation in progress
    data,               \* extract_message_data: the rows {date, user, message}
    df,                 \* the DataFrame returned by preprocess
    validation_issues,  \* validate_dataframe: the issues it reports
    stats,              \* the result of get_preprocessing_stats
    length_stats,       \* the result of helper.get_message_length_stats
    df_again,           \* enhance_dataframe applied to the records of df
    fetched,            \* the result of helper.fetch_busy_users
    pc                  \* position of the run

\* what the readers of the DataFrame produce
downstream == <<validation_issues, stats, length_stats, df_again, fetched>>

vars == <<uploaded_file, raw_lines, normalized_lines, date_pattern,
          date_format, idx, grouped, current_msg, data, df, downstream, pc>>

---------------------------------------------------------------------------
(* Characters and strings                                                  *)

Digits == {"0", "1", "2", "3", "4", "5", "6", "7", "8", "9"}

DigitSeq == <<"0", "1", "2", "3", "4", "5", "6", "7", "8", "9">>

DigitVal(c) == (CHOOSE i \in 1..10 : DigitSeq[i] = c) - 1

\* U+200E LEFT-TO-RIGHT MARK and U+200F, which clean_text deletes
LRM == "u200e"

RLM == "u200f"

\* U+202F NARROW NO-BREAK SPACE, which clean_text turns into a space
NNBSP == "u202f"

\* U+0007, one of the control characters clean_text deletes
BEL == "x07"

ControlChars == {BEL}

\* the line feed that ends a line of file.readlines()
LF == "LF"

\* str.strip() whitespace among the characters of the model
Whitespace == {" ", LF}

\* the text without the characters of drop
Filter(s, drop) == SelectSeq(s, LAMBDA c : c \notin drop)

\* str.strip(): the text between its first and its last non-blank character
Strip(s) ==
    LET inked == {i \in 1..Len(s) : s[i] \notin Whitespace}
    IN  IF inked = {} THEN <<>>
        ELSE SubSeq(s, CHOOSE i \in inked : \A j \in inked : i <= j,
                       CHOOSE i \in inked : \A j \in inked : i >= j)

\* clean_text: delete control characters, replace U+202F by a space, delete
\* U+200E/U+200F, NFKC (the identity on the characters used here), strip.
\* urllib.parse.quote rejects lone surrogates only, which no text here holds,
\* so the aggressive filter of lines 36-38 never runs.
clean_text(text) ==
    LET noctl  == Filter(text, ControlChars)
        spaced == [i \in 1..Len(noctl) |->
                      IF noctl[i] = NNBSP THEN " " ELSE noctl[i]]
        nobidi == Filter(spaced, {LRM, RLM})
    IN  Strip(nobidi)

---------------------------------------------------------------------------
(* Regular expressions: a pattern is a sequence of atoms, each a character *)
(* class repeated between lo and hi times.                                 *)

Atom(cs, lo, hi) == [cs |-> cs, lo |-> lo, hi |-> hi]

Lit(c) == Atom({c}, 1, 1)

D(lo, hi) == Atom(Digits, lo, hi)

\* the positions at which atom a can end when it starts at position p
\* (positions count the characters consumed so far)
AtomEnds(a, s, p) ==
    {p + k : k \in {n \in a.lo..a.hi :
                      /\ p + n <= Len(s)
                      /\ \A j \in 1..n : s[p + j] \in a.cs}}

RECURSIVE Ends(_, _, _)
\* the positions at which the atoms of pat can end when started from any of P
Ends(pat, s, P) ==
    IF pat = <<>> \/ P = {} THEN P
    ELSE Ends(Tail(pat), s, UNION {AtomEnds(Head(pat), s, p) : p \in P})

\* re.match(pattern, line): the pattern matches a prefix of the line
ReMatch(pat, s) == Ends(pat, s, {0}) # {}

---------------------------------------------------------------------------
(* detect_date_format                                                      *)

Slash == Lit("/")

Comma == Lit(",")

Space == Lit(" ")

Colon == Lit(":")

Dot == Lit(".")

Dash == Lit("-")

AmPm == <<Atom({"A", "P"}, 1, 1), Lit("M")>>

\* \d{1,2}/\d{1,2}/\d{n}
SlashDate(n) == <<D(1, 2), Slash, D(1, 2), Slash, D(n, n)>>

\* \d{1,2}\.\d{1,2}\.\d{2}
DotDate == <<D(1, 2), Dot, D(1, 2), Dot, D(2, 2)>>

\* \d{4}-\d{2}-\d{2}
IsoDate == <<D(4, 4), Dash, D(2, 2), Dash, D(2, 2)>>

\* \d{1,2}:\d{2} [AP]M
Time12 == <<D(1, 2), Colon, D(2, 2), Space>> \o AmPm

\* \d{2}:\d{2}
Time24 == <<D(2, 2), Colon, D(2, 2)>>

\* \d{1,2}:\d{2}
TimeH == <<D(1, 2), Colon, D(2, 2)>>

\* \d{2}:\d{2}:\d{2}
TimeSec == <<D(2, 2), Colon, D(2, 2), Colon, D(2, 2)>>

CommaSpace == <<Comma, Space>>

date_patterns == <<
    SlashDate(2) \o CommaSpace \o Time12,
    SlashDate(4) \o CommaSpace \o Time12,
    SlashDate(2) \o CommaSpace \o Time24,
    SlashDate(4) \o CommaSpace \o Time24,
    <<Lit("[")>> \o SlashDate(2) \o CommaSpace \o Time12 \o <<Lit("]")>>,
    DotDate \o CommaSpace \o TimeH,
    IsoDate \o CommaSpace \o TimeSec >>

\* strptime formats: a sequence of directives and literal characters
F_mdy_12 == <<"%m", "/", "%d", "/", "%y", ",", " ", "%I", ":", "%M", " ", "%p">>

F_dmy_12 == <<"%d", "/", "%m", "/", "%y", ",", " ", "%I", ":", "%M", " ", "%p">>

F_mdY_12 == <<"%m", "/", "%d", "/", "%Y", ",", " ", "%I", ":", "%M", " ", "%p">>

F_dmY_12 == <<"%d", "/", "%m", "/", "%Y", ",", " ", "%I", ":", "%M", " ", "%p">>

F_mdy_24 == <<"%m", "/", "%d", "/", "%y", ",", " ", "%H", ":", "%M">>

F_dmy_24 == <<"%d", "/", "%m", "/", "%y", ",", " ", "%H", ":", "%M">>

F_mdY_24 == <<"%m", "/", "%d", "/", "%Y", ",", " ", "%H", ":", "%M">>

F_dot_24 == <<"%d", ".", "%m", ".", "%y", ",", " ", "%H", ":", "%M">>

F_iso == <<"%Y", "-", "%m", "-", "%d", ",", " ", "%H", ":", "%M", ":", "%S">>

format_strings == <<F_mdy_12, F_mdY_12, F_mdy_24, F_mdY_24, F_mdy_12,
                    F_dot_24, F_iso>>

\* lines[:20]
ScanWindow == 20

Min(a, b) == IF a < b THEN a ELSE b

\* the least element of a non-empty set of numbers
Least(S) == CHOOSE x \in S : \A y \in S : x <= y

RECURSIVE ScanLines(_, _, _, _)
\* the inner loop: does the pattern match one of lines[i..n]?
ScanLines(pat, lines, i, n) ==
    IF i > n THEN FALSE
    ELSE IF ReMatch(pat, lines[i]) THEN TRUE
         ELSE ScanLines(pat, lines, i + 1, n)

RECURSIVE ScanPatterns_line_first(_, _)
\* the loops nested the other way round: the first scanned line, from the
\* k-th on, that matches a candidate decides
ScanPatterns_line_first(lines, k) ==
    IF k > Min(ScanWindow, Len(lines)) THEN 0
    ELSE LET M == {c \in 1..Len(date_patterns) :
                      ReMatch(date_patterns[c], lines[k])}
         IN  IF M # {} THEN Least(M)
             ELSE ScanPatterns_line_first(lines, k + 1)

RECURSIVE ScanPatterns(_, _)
\* the outer loop over zip(date_patterns, format_strings), from candidate k;
\* 0 when the loop ends without returning
ScanPatterns(lines, k) ==
    IF k > Len(date_patterns) THEN 0
    ELSE IF ScanLines(date_patterns[k], lines, 1, Min(ScanWindow, Len(lines)))
         THEN k
         ELSE ScanPatterns(lines, k + 1)

\* a default pattern that matches every line
detect_date_format_any(lines) ==
    LET k == ScanPatterns(lines, 1)
    IN  IF k = 0 THEN <<(<<>>), F_mdy_12>>
        ELSE <<date_patterns[k], format_strings[k]>>

\* the (pattern, format) pair detect_date_format returns
detect_date_format(lines) ==
    LET k == ScanPatterns(lines, 1)
    IN  IF k = 0 THEN <<date_patterns[1], F_mdy_12>>
        ELSE <<date_patterns[k], format_strings[k]>>

---------------------------------------------------------------------------
(* group_messages, one loop iteration at a time                            *)

\* an orphaned line starts an accumulation
GroupStep_orphan_starts(g, cur, line, pat) ==
    IF ReMatch(pat, line)
    THEN [grouped |-> IF cur # <<>> THEN Append(g, cur) ELSE g,
          current_msg |-> line]
    ELSE IF cur # <<>>
         THEN [grouped |-> g, current_msg |-> cur \o <<" ">> \o line]
         ELSE [grouped |-> g, current_msg |-> line]

\* the state of the loop after it has consumed one more line
GroupStep(g, cur, line, pat) ==
    IF ReMatch(pat, line)
    THEN [grouped |-> IF cur # <<>> THEN Append(g, cur) ELSE g,
          current_msg |-> line]
    ELSE IF cur # <<>>
         THEN [grouped |-> g, current_msg |-> cur \o <<" ">> \o line]
         ELSE [grouped |-> g, current_msg |-> cur]

\* the last message forgotten
GroupFlush_no_last(g, cur) == g

\* "Don't forget the last message"
GroupFlush(g, cur) == IF cur # <<>> THEN Append(g, cur) ELSE g

RECURSIVE GroupFrom(_, _, _, _, _)
GroupFrom(lines, pat, i, g, cur) ==
    IF i > Len(lines) THEN GroupFlush(g, cur)
    ELSE LET st == GroupStep(g, cur, lines[i], pat)
         IN  GroupFrom(lines, pat, i + 1, st.grouped, st.current_msg)

\* group_messages(lines, date_pattern) as a whole
group_messages(lines, pat) == GroupFrom(lines, pat, 1, <<>>, <<>>)

---------------------------------------------------------------------------
(* pd.to_datetime(date_str, format=fmt): strptime over the whole string    *)

NaT == <<>>

\* the number written by the k characters after position p, -1 if they are
\* not k digits
RECURSIVE NumAt(_, _, _)
NumAt(s, p, k) ==
    IF k = 0 THEN 0
    ELSE IF p + k > Len(s) \/ s[p + k] \notin Digits THEN -1
         ELSE LET hiPart == NumAt(s, p, k - 1)
              IN  IF hiPart < 0 THEN -1 ELSE 10 * hiPart + DigitVal(s[p + k])

\* the alternatives of strptime's regular expression for a numeric directive,
\* as <<number of digits, least value, greatest value>>
NumAlternatives(dir) ==
    CASE dir = "%m" -> {<<2, 1, 12>>, <<1, 1, 9>>}
      [] dir = "%d" -> {<<2, 1, 31>>, <<1, 1, 9>>}
      [] dir = "%y" -> {<<2, 0, 99>>}
      [] dir = "%Y" -> {<<4, 0, 9999>>}
      [] dir = "%H" -> {<<2, 0, 23>>, <<1, 0, 9>>}
      [] dir = "%I" -> {<<2, 1, 12>>, <<1, 1, 9>>}
      [] dir = "%M" -> {<<2, 0, 59>>, <<1, 0, 9>>}
      [] dir = "%S" -> {<<2, 0, 59>>, <<1, 0, 9>>}
      [] OTHER -> {}

NumDirectives == {"%m", "%d", "%y", "%Y", "%H", "%I", "%M", "%S"}

\* the fields strptime has not read keep these values
NoFields == [Y |-> 1900, m |-> 1, d |-> 1, H |-> 0, I |-> -1, M |-> 0,
             S |-> 0, p |-> "none"]

\* %y: 69..99 are 1969..1999, 00..68 are 2000..2068
TwoDigitYear(v) == IF v <= 68 THEN 2000 + v ELSE 1900 + v

SetField(acc, dir, v) ==
    CASE dir = "%m" -> [acc EXCEPT !.m = v]
      [] dir = "%d" -> [acc EXCEPT !.d = v]
      [] dir = "%y" -> [acc EXCEPT !.Y = TwoDigitYear(v)]
      [] dir = "%Y" -> [acc EXCEPT !.Y = v]
      [] dir = "%H" -> [acc EXCEPT !.H = v]
      [] dir = "%I" -> [acc EXCEPT !.I = v]
      [] dir = "%M" -> [acc EXCEPT !.M = v]
      [] dir = "%S" -> [acc EXCEPT !.S = v]

RECURSIVE SpaceRun(_, _)
\* the positions after one or more spaces from position p (\s+)
SpaceRun(s, p) ==
    IF p + 1 <= Len(s) /\ s[p + 1] \in Whitespace
    THEN {p + 1} \cup SpaceRun(s, p + 1)
    ELSE {}

RECURSIVE ParseFmt(_, _, _, _)
\* the field assignments under which fmt matches s from position p to its end
ParseFmt(fmt, s, p, acc) ==
    IF fmt = <<>> THEN (IF p = Len(s) THEN {acc} ELSE {})
    ELSE LET dir == Head(fmt)
             rest == Tail(fmt)
         IN  IF dir \in NumDirectives
             THEN UNION {
                   LET v == NumAt(s, p, alt[1])
                   IN  IF v >= alt[2] /\ v <= alt[3]
                       THEN ParseFmt(rest, s, p + alt[1], SetField(acc, dir, v))
                       ELSE {}
                   : alt \in NumAlternatives(dir)}
             ELSE IF dir = "%p"
             THEN IF p + 2 <= Len(s) /\ s[p + 1] \in {"A", "P"} /\ s[p + 2] = "M"
                  THEN ParseFmt(rest, s, p + 2, [acc EXCEPT !.p = s[p + 1]])
                  ELSE {}
             ELSE IF dir = " "
             THEN UNION {ParseFmt(rest, s, q, acc) : q \in SpaceRun(s, p)}
             ELSE IF p + 1 <= Len(s) /\ s[p + 1] = dir
                  THEN ParseFmt(rest, s, p + 1, acc)
                  ELSE {}

IsLeap(y) == (y % 4 = 0 /\ y % 100 # 0) \/ y % 400 = 0

DaysInMonth(y, m) ==
    IF m = 2 THEN (IF IsLeap(y) THEN 29 ELSE 28)
    ELSE IF m \in {4, 6, 9, 11} THEN 30 ELSE 31

\* the hour of a 12-hour clock reading
Hour12(h, ampm) ==
    IF ampm = "P" THEN (h % 12) + 12
    ELSE IF ampm = "A" THEN h % 12
    ELSE h

\* the timestamp of a field assignment, NaT when the day is not in the month
FieldsTimestamp(a) ==
    IF a.d > DaysInMonth(a.Y, a.m) THEN NaT
    ELSE <<a.Y, a.m, a.d,
           IF a.I >= 0 THEN Hour12(a.I, a.p) ELSE a.H, a.M, a.S>>

\* pd.to_datetime(date_str, format=fmt), NaT standing for the raised error
Strptime(fmt, s) ==
    LET R == ParseFmt(fmt, s, 0, NoFields)
    IN  IF R = {} THEN NaT ELSE FieldsTimestamp(CHOOSE a \in R : TRUE)

---------------------------------------------------------------------------
(* pd.to_datetime(date_str) without a format: the dateutil parser, for the *)
(* shapes "a/b/c, H:MM", "a.b.c, H:MM" and "a-b-c, H:MM", each with an     *)
(* optional ":SS" and an optional " AM"/" PM"; any other text is rejected. *)

\* the year the run takes place in (dateutil's two-digit-year window)
CurrentYear == 2026

RECURSIVE NumRun(_, _)
\* the number of digits that follow position p
NumRun(s, p) ==
    IF p + 1 <= Len(s) /\ s[p + 1] \in Digits THEN 1 + NumRun(s, p + 1) ELSE 0

CharAt(s, p) == IF p >= 1 /\ p <= Len(s) THEN s[p] ELSE "eos"

\* dateutil's convertyear
ConvertYear(y) ==
    LET c == y + (CurrentYear \div 100) * 100
    IN  IF c >= CurrentYear + 50 THEN c - 100
        ELSE IF c < CurrentYear - 50 THEN c + 100
        ELSE c

\* dateutil's resolve_ymd for three numbers of which none is a month name;
\* a number of more than two digits is the year
ResolveYmd(a, la, b, c, lc) ==
    LET asYear(y, l) == IF l > 2 THEN y ELSE ConvertYear(y)
    IN  IF a > 31 \/ la > 2 THEN <<asYear(a, la), b, c>>
        ELSE IF a > 12 THEN <<asYear(c, lc), b, a>>
        ELSE <<asYear(c, lc), a, b>>

GeneralParse(s) ==
    LET la == NumRun(s, 0)
        p1 == la
        sep == CharAt(s, p1 + 1)
        lb == NumRun(s, p1 + 1)
        p2 == p1 + 1 + lb
        lc == NumRun(s, p2 + 1)
        p3 == p2 + 1 + lc
        lh == NumRun(s, p3 + 2)
        p4 == p3 + 2 + lh
        p5 == p4 + 3
        hasSec == CharAt(s, p5 + 1) = ":" /\ NumRun(s, p5 + 1) = 2
        p6 == IF hasSec THEN p5 + 3 ELSE p5
        hasAmPm == /\ CharAt(s, p6 + 1) = " "
                   /\ CharAt(s, p6 + 2) \in {"A", "P"}
                   /\ CharAt(s, p6 + 3) = "M"
        p7 == IF hasAmPm THEN p6 + 3 ELSE p6
        shaped == /\ la \in 1..4 /\ lb \in 1..4 /\ lc \in 1..4
                  /\ sep \in {"/", ".", "-"} /\ CharAt(s, p2 + 1) = sep
                  /\ CharAt(s, p3 + 1) = "," /\ CharAt(s, p3 + 2) = " "
                  /\ lh \in 1..2 /\ CharAt(s, p4 + 1) = ":"
                  /\ NumRun(s, p4 + 1) = 2
                  /\ p7 = Len(s)
    IN  IF ~shaped THEN NaT
        ELSE LET ymd == ResolveYmd(NumAt(s, 0, la), la, NumAt(s, p1 + 1, lb),
                                   NumAt(s, p2 + 1, lc), lc)
                 h   == NumAt(s, p3 + 2, lh)
                 mi  == NumAt(s, p4 + 1, 2)
                 sec == IF hasSec THEN NumAt(s, p5 + 1, 2) ELSE 0
                 hour == IF hasAmPm THEN Hour12(h, s[p6 + 2]) ELSE h
                 ok  == /\ ymd[1] >= 1
                        /\ ymd[2] \in 1..12
                        /\ ymd[3] >= 1 /\ ymd[3] <= DaysInMonth(ymd[1], ymd[2])
                        /\ hasAmPm => h <= 12
                        /\ hour <= 23 /\ mi <= 59 /\ sec <= 59
             IN  IF ok THEN <<ymd[1], ymd[2], ymd[3], hour, mi, sec>> ELSE NaT

\* day first tried before month first
formats_day_first ==
    <<F_dmy_12, F_mdy_12, F_dmY_12, F_mdY_12, F_dmy_24, F_mdy_24,
      F_dot_24, F_iso>>

\* the formats of parse_date_flexible, in the order it tries them
formats == <<F_mdy_12, F_dmy_12, F_mdY_12, F_dmY_12, F_mdy_24, F_dmy_24,
             F_dot_24, F_iso>>

RECURSIVE TryFormats(_, _, _)
TryFormats(fmts, k, date_str) ==
    IF k > Len(fmts) THEN GeneralParse(date_str)
    ELSE LET t == Strptime(fmts[k], date_str)
         IN  IF t # NaT THEN t ELSE TryFormats(fmts, k + 1, date_str)

\* the first second of 1970 for a text that nothing parses
parse_date_flexible_or_epoch(date_str) ==
    LET t == TryFormats(formats, 1, date_str)
    IN  IF t = NaT THEN <<1970, 1, 1, 0, 0, 0>> ELSE t

parse_date_flexible(date_str) == TryFormats(formats, 1, date_str)

---------------------------------------------------------------------------
(* extract_message_data                                                    *)

unknown == <<"u", "n", "k", "n", "o", "w", "n">>

system_notification ==
    <<"s", "y", "s", "t", "e", "m", "_", "n", "o", "t", "i", "f", "i", "c",
      "a", "t", "i", "o", "n">>

\* Python's None, for an optional group that took no part in the match
None == <<"None">>

SpaceDashSpace == <<Space, Dash, Space>>

\* the second pattern taking a year of two to four digits
patterns_year_2_to_4 == <<
    [open |-> <<>>, date |-> SlashDate(2), time |-> Time12,
     close |-> SpaceDashSpace],
    [open |-> <<>>, date |-> <<D(1, 2), Slash, D(1, 2), Slash, D(2, 4)>>,
     time |-> Time12, close |-> SpaceDashSpace],
    [open |-> <<>>, date |-> SlashDate(2), time |-> Time24,
     close |-> SpaceDashSpace],
    [open |-> <<Lit("[")>>, date |-> SlashDate(2), time |-> Time12,
     close |-> <<Lit("]"), Space>>],
    [open |-> <<>>, date |-> DotDate, time |-> TimeH,
     close |-> SpaceDashSpace],
    [open |-> <<>>, date |-> IsoDate, time |-> TimeSec,
     close |-> SpaceDashSpace] >>

\* the structural patterns: what precedes group 1, group 1, group 2 and what
\* follows group 2; ", " separates the groups and (?:(.*?): )?(.*)$ ends each
patterns == <<
    [open |-> <<>>, date |-> SlashDate(2), time |-> Time12,
     close |-> SpaceDashSpace],
    [open |-> <<>>, date |-> SlashDate(4), time |-> Time12,
     close |-> SpaceDashSpace],
    [open |-> <<>>, date |-> SlashDate(2), time |-> Time24,
     close |-> SpaceDashSpace],
    [open |-> <<Lit("[")>>, date |-> SlashDate(2), time |-> Time12,
     close |-> <<Lit("]"), Space>>],
    [open |-> <<>>, date |-> DotDate, time |-> TimeH,
     close |-> SpaceDashSpace],
    [open |-> <<>>, date |-> IsoDate, time |-> TimeSec,
     close |-> SpaceDashSpace] >>

RECURSIVE FirstColonSpace_greedy(_, _)
\* the greatest such i from i on: a user group that runs to the last ": "
FirstColonSpace_greedy(rest, i) ==
    IF i + 1 > Len(rest) THEN 0
    ELSE LET later == FirstColonSpace_greedy(rest, i + 1)
         IN  IF later # 0 THEN later
             ELSE IF rest[i] = ":" /\ rest[i + 1] = " " THEN i
             ELSE 0

\* the least i with rest[i] = ":" and rest[i+1] = " ", 0 if there is none:
\* where the lazy (.*?) of the user group stops
RECURSIVE FirstColonSpace(_, _)
FirstColonSpace(rest, i) ==
    IF i + 1 > Len(rest) THEN 0
    ELSE IF rest[i] = ":" /\ rest[i + 1] = " " THEN i
         ELSE FirstColonSpace(rest, i + 1)

\* re.match(pattern, entry): the groups of the match, or matched = FALSE
StructMatch(pt, entry) ==
    LET P0 == Ends(pt.open, entry, {0})
        D1 == {e \in Ends(pt.date, entry, P0) :
                  Ends(CommaSpace \o pt.time \o pt.close, entry, {e}) # {}}
    IN  IF D1 = {} THEN [matched |-> FALSE]
        ELSE LET p0 == CHOOSE p \in P0 : TRUE
                 e1 == CHOOSE e \in D1 : TRUE
                 T1 == {e \in Ends(pt.time, entry, {e1 + 2}) :
                           Ends(pt.close, entry, {e}) # {}}
                 e2 == CHOOSE e \in T1 : TRUE
                 p4 == CHOOSE e \in Ends(pt.close, entry, {e2}) : TRUE
                 rest == SubSeq(entry, p4 + 1, Len(entry))
                 c == FirstColonSpace(rest, 1)
             IN  [matched |-> TRUE,
                  g1 |-> SubSeq(entry, p0 + 1, e1),
                  g2 |-> SubSeq(entry, e1 + 3, e2),
                  g3 |-> IF c = 0 THEN None ELSE SubSeq(rest, 1, c - 1),
                  g4 |-> IF c = 0 THEN rest
                         ELSE SubSeq(rest, c + 2, Len(rest))]

\* Python truthiness of an optional string
Truthy(x) == x # None /\ x # <<>>

RECURSIVE FirstPattern(_, _)
\* the first pattern from k on that matches the entry, 0 if none does
FirstPattern(entry, k) ==
    IF k > Len(patterns) THEN 0
    ELSE IF StructMatch(patterns[k], entry).matched THEN k
         ELSE FirstPattern(entry, k + 1)

\* the user kept as captured, without the 'system_notification' default
MatchedRow_no_default(m) ==
    LET date_part == clean_text(m.g1)
        time_part == clean_text(m.g2)
        user == IF Truthy(m.g3) THEN clean_text(m.g3) ELSE None
        message == IF Truthy(m.g4) THEN clean_text(m.g4) ELSE <<>>
    IN  [date |-> date_part \o <<",", " ">> \o time_part,
         user |-> user,
         message |-> message]

\* the row appended when a pattern matched
MatchedRow(m) ==
    LET date_part == clean_text(m.g1)
        time_part == clean_text(m.g2)
        user == IF Truthy(m.g3) THEN clean_text(m.g3) ELSE None
        message == IF Truthy(m.g4) THEN clean_text(m.g4) ELSE <<>>
    IN  [date |-> date_part \o <<",", " ">> \o time_part,
         user |-> IF Truthy(user) THEN user ELSE system_notification,
         message |-> message]

\* unparsed text dated "1/1/70, 12:00 AM" instead of 'unknown'
UnmatchedRow_epoch(entry) ==
    [date |-> <<"1", "/", "1", "/", "7", "0", ",", " ", "1", "2", ":", "0",
                "0", " ", "A", "M">>,
     user |-> unknown, message |-> clean_text(entry)]

\* the row appended when no pattern matched
UnmatchedRow(entry) ==
    [date |-> unknown, user |-> unknown, message |-> clean_text(entry)]

\* the row one iteration of the loop over grouped_messages appends
ExtractRow(e) ==
    LET entry == clean_text(e)
        k == FirstPattern(entry, 1)
    IN  IF k = 0 THEN UnmatchedRow(entry)
        ELSE MatchedRow(StructMatch(patterns[k], entry))

\* extract_message_data: the three columns as a sequence of rows
extract_message_data(grouped_messages) ==
    [i \in 1..Len(grouped_messages) |-> ExtractRow(grouped_messages[i])]

---------------------------------------------------------------------------
(* enhance_dataframe                                                       *)

\* the rows of pd.DataFrame(data), each with its index label; src keeps the
\* label after reset_index, as a record of which logical message a row is
Frame(rows) ==
    [i \in 1..Len(rows) |->
        [index |-> i, src |-> i, date |-> rows[i].date,
         user |-> rows[i].user, message |-> rows[i].message]]

\* df[df['date'] != 'unknown']
DropUnknown(frame) ==
    SelectSeq(frame, LAMBDA r : r.date # unknown)

\* df['date'].apply(parse_date_flexible)
ParseDates(frame) ==
    [i \in 1..Len(frame) |->
        [frame[i] EXCEPT !.date = parse_date_flexible(frame[i].date)]]

\* dropna followed by drop_duplicates(subset=['date'])
DropNaT_and_repeats(frame) ==
    LET dated == SelectSeq(frame, LAMBDA r : r.date # NaT)
        first == {i \in 1..Len(dated) :
                     \A j \in 1..(i - 1) : dated[j].date # dated[i].date}
        nth(k) == CHOOSE i \in first : Cardinality({j \in first : j <= i}) = k
    IN  [k \in 1..Cardinality(first) |-> dated[nth(k)]]

\* df.dropna(subset=['date'])
DropNaT(frame) ==
    SelectSeq(frame, LAMBDA r : r.date # NaT)

\* the order of two timestamps
RECURSIVE TsLeqFrom(_, _, _)
TsLeqFrom(a, b, i) ==
    IF i > Len(a) THEN TRUE
    ELSE IF a[i] < b[i] THEN TRUE
    ELSE IF a[i] > b[i] THEN FALSE
    ELSE TsLeqFrom(a, b, i + 1)

TsLeq(a, b) == TsLeqFrom(a, b, 1)

IndexOrders(n) ==
    {f \in [1..n -> 1..n] : \A i, j \in 1..n : i # j => f[i] # f[j]}

\* the rows left in the order of the input
sort_values_unsorted(frame) ==
    {[i \in 1..Len(frame) |-> [frame[i] EXCEPT !.index = i]]}

\* df.sort_values('date').reset_index(drop=True): the default kind is
\* 'quicksort', which keeps no order among equal keys, so every arrangement
\* that is ascending by date is a possible result
sort_values(frame) ==
    {[i \in 1..Len(frame) |-> [frame[f[i]] EXCEPT !.index = i]] :
        f \in {g \in IndexOrders(Len(frame)) :
                 \A i \in 1..(Len(frame) - 1) :
                    TsLeq(frame[g[i]].date, frame[g[i + 1]].date)}}

\* every hour up to the next period's first one taken into the period
get_time_period_inclusive(hour) ==
    IF 5 <= hour /\ hour <= 12 THEN "Morning"
    ELSE IF 12 <= hour /\ hour <= 17 THEN "Afternoon"
    ELSE IF 17 <= hour /\ hour <= 21 THEN "Evening"
    ELSE "Night"

get_time_period(hour) ==
    IF 5 <= hour /\ hour < 12 THEN "Morning"
    ELSE IF 12 <= hour /\ hour < 17 THEN "Afternoon"
    ELSE IF 17 <= hour /\ hour < 21 THEN "Evening"
    ELSE "Night"

\* Series.dt.dayofweek, Monday = 0: the day of the week by Sakamoto's method,
\* as pandas computes it
dayofweek(date) ==
    LET sakamoto == <<0, 3, 2, 5, 0, 3, 5, 1, 4, 6, 2, 4>>
        m == date[2]
        y == IF m < 3 THEN date[1] - 1 ELSE date[1]
        day == (y + y \div 4 - y \div 100 + y \div 400 + sakamoto[m] + date[3]) % 7
    IN  (day + 6) % 7

\* Series.dt.day_name()
day_name(date) ==
    <<"Monday", "Tuesday", "Wednesday", "Thursday", "Friday", "Saturday",
      "Sunday">>[dayofweek(date) + 1]

\* the days 0 and 6 taken for the weekend, as if the week began on Sunday
is_weekend_from_sunday(date) == dayofweek(date) \in {0, 6}

\* df['date'].dt.dayofweek.isin([5, 6])
is_weekend(date) == dayofweek(date) \in {5, 6}

\* '<Media omitted>'
MediaMarker ==
    <<"<", "M", "e", "d", "i", "a", " ", "o", "m", "i", "t", "t", "e", "d", ">">>

\* 'This message was deleted'
DeletedMarker ==
    <<"T", "h", "i", "s", " ", "m", "e", "s", "s", "a", "g", "e", " ", "w", "a",
      "s", " ", "d", "e", "l", "e", "t", "e", "d">>

\* Series.str.contains(pat) for a pattern of literal characters: the pattern
\* is searched for anywhere in the text
str_contains(text, pat) ==
    \E k \in 0..(Len(text) - Len(pat)) :
        /\ text[k + 1] = pat[1]
        /\ SubSeq(text, k + 1, k + Len(pat)) = pat

\* the user and message columns after "Clean user names", "Clean messages"
\* and the final cleaning pass, with the calendar columns read off the date
\* U+1F389 PARTY POPPER and U+1F600 GRINNING FACE: emoji.is_emoji holds of
\* each, and each lies in a range of the fallback character class
PartyPopper == "U+1F389"

GrinningFace == "U+1F600"

\* emoji.is_emoji(c) for a character c of the model
is_emoji(c) == c \in {PartyPopper, GrinningFace}

\* the character class of emoji_pattern, lines 356-362
emoji_pattern == {PartyPopper, GrinningFace}

\* the outcomes of "import emoji": the package is installed or it is not
ImportOutcomes == BOOLEAN

\* the starts of the matches of [cs]+ that findall returns: the maximal runs
\* of characters of the class
findall(cs, text) ==
    {i \in 1..Len(text) :
        /\ text[i] \in cs
        /\ i = 1 \/ text[i - 1] \notin cs}

\* count_emojis, lines 348-363: with the package, the characters of which
\* emoji.is_emoji holds; on ImportError, the matches of emoji_pattern
count_emojis(text, installed) ==
    IF installed
    THEN Cardinality({i \in 1..Len(text) : is_emoji(text[i])})
    ELSE Cardinality(findall(emoji_pattern, text))

EnrichRow(r, installed) ==
    LET user0 == IF r.user = None THEN system_notification ELSE r.user
        user1 == IF user0 # <<>> THEN clean_text(user0)
                 ELSE system_notification
        msg1 == IF r.message # <<>> THEN clean_text(r.message) ELSE <<>>
    IN  [index |-> r.index, src |-> r.src, date |-> r.date,
         year |-> r.date[1], month_num |-> r.date[2], day |-> r.date[3],
         hour |-> r.date[4], minute |-> r.date[5],
         day_name |-> day_name(r.date),
         time_period |-> get_time_period(r.date[4]),
         is_weekend |-> is_weekend(r.date),
         user |-> clean_text(user1),
         message |-> clean_text(msg1),
         message_length |-> Len(msg1),
         is_media |-> str_contains(msg1, MediaMarker),
         is_deleted |-> str_contains(msg1, DeletedMarker),
         emoji_count |-> count_emojis(msg1, installed),
         has_emoji |-> count_emojis(msg1, installed) > 0]

\* the DataFrames enhance_dataframe can return for the extracted rows
enhance_dataframe(rows) ==
    LET known == DropUnknown(Frame(rows))
        valid == DropNaT(ParseDates(known))
    IN  IF rows = <<>> \/ known = <<>> \/ valid = <<>> THEN {<<>>}
        ELSE {[i \in 1..Len(sorted) |-> EnrichRow(sorted[i], installed)] :
                 sorted \in sort_values(valid), installed \in ImportOutcomes}

---------------------------------------------------------------------------
(* validate_dataframe and get_preprocessing_stats                          *)

\* the days from 0001-01-01 to a date
DayNumber(date) ==
    LET y == date[1] - 1
        before == {m \in 1..12 : m < date[2]}
        RECURSIVE DaysOf(_)
        DaysOf(M) == IF M = {} THEN 0
                     ELSE LET m == CHOOSE m \in M : TRUE
                          IN  DaysInMonth(date[1], m) + DaysOf(M \ {m})
    IN  365 * y + y \div 4 - y \div 100 + y \div 400 + DaysOf(before) + date[3]

\* the seconds from midnight to the time of a timestamp
SecondOfDay(date) == date[4] * 3600 + date[5] * 60 + date[6]

\* Series.min() and Series.max() of the dates that are not NaT
MinDate(frame) ==
    CHOOSE d \in {frame[i].date : i \in 1..Len(frame)} \ {NaT} :
        \A i \in 1..Len(frame) : frame[i].date # NaT => TsLeq(d, frame[i].date)

MaxDate(frame) ==
    CHOOSE d \in {frame[i].date : i \in 1..Len(frame)} \ {NaT} :
        \A i \in 1..Len(frame) : frame[i].date # NaT => TsLeq(frame[i].date, d)

\* (df['date'].max() - df['date'].min()).days: the whole days between the
\* two timestamps
date_range(frame) ==
    LET first == MinDate(frame)
        last == MaxDate(frame)
    IN  DayNumber(last) - DayNumber(first)
            - (IF SecondOfDay(last) < SecondOfDay(first) THEN 1 ELSE 0)

\* lines 415-432: the data quality checks
QualityIssues(frame) ==
    LET total_messages == Len(frame)
        valid_dates == Cardinality({i \in 1..Len(frame) : frame[i].date # NaT})
        valid_users == Cardinality({i \in 1..Len(frame) : frame[i].user # None})
    IN  (IF valid_dates * 10 < total_messages * 8
         THEN <<<<"Low date validity", valid_dates, total_messages>>>>
         ELSE <<>>)
        \o (IF valid_users * 10 < total_messages * 8
            THEN <<<<"Low user validity", valid_users, total_messages>>>>
            ELSE <<>>)
        \o (IF valid_dates = 0 THEN <<>>
            ELSE IF date_range(frame) > 3650
            THEN <<<<"Unusually large date range", date_range(frame)>>>>
            ELSE IF date_range(frame) < 0
            THEN <<<<"Invalid date range (negative)">>>>
            ELSE <<>>)

\* the rows of the notifications taken out of the DataFrame
validate_dataframe_without_notifications(frame) ==
    [df |-> SelectSeq(frame, LAMBDA r : r.user # system_notification),
     issues |-> <<>>]

\* validate_dataframe.  The DataFrame has the columns date, user and message
\* whenever it has a row.  urllib.parse.quote raises on lone surrogates only,
\* and clean_text has taken them out of every text column, so the loop of
\* lines 404-413 reports nothing and cleans no column.
validate_dataframe(frame) ==
    IF frame = <<>> THEN [df |-> frame, issues |-> <<>>]
    ELSE IF \A i \in 1..Len(frame) : frame[i].date = NaT
    THEN [df |-> frame, issues |-> <<<<"All dates are invalid">>>>]
    ELSE [df |-> frame, issues |-> QualityIssues(frame)]

\* Series.nunique()
nunique(vals) == Cardinality({vals[i] : i \in 1..Len(vals)})

\* get_preprocessing_stats; the date range is kept as its two dates, and
\* the count of the url column is left out with that column
get_preprocessing_stats(frame) ==
    IF frame = <<>>
    THEN [total_messages |-> 0, date_range |-> "N/A", users_found |-> 0,
          processing_success |-> FALSE]
    ELSE [total_messages |-> Len(frame),
          valid_dates |->
              Cardinality({i \in 1..Len(frame) : frame[i].date # NaT}),
          date_range |->
              IF \E i \in 1..Len(frame) : frame[i].date # NaT
              THEN <<SubSeq(MinDate(frame), 1, 3), SubSeq(MaxDate(frame), 1, 3)>>
              ELSE "N/A",
          users_found |-> nunique([i \in 1..Len(frame) |-> frame[i].user]),
          media_messages |->
              Cardinality({i \in 1..Len(frame) : frame[i].is_media}),
          deleted_messages |->
              Cardinality({i \in 1..Len(frame) : frame[i].is_deleted}),
          messages_with_emojis |->
              Cardinality({i \in 1..Len(frame) : frame[i].has_emoji}),
          processing_success |-> TRUE]

---------------------------------------------------------------------------
(* helper.get_message_length_stats                                         *)

\* 'All Users'
AllUsers == <<"A", "l", "l", " ", "U", "s", "e", "r", "s">>

\* the number a statistic comes to, and the NaN of one taken over no rows
Num(v) == <<v>>

NaN == <<>>

RECURSIVE SumOf(_, _)
SumOf(vals, i) == IF i > Len(vals) THEN 0 ELSE vals[i] + SumOf(vals, i + 1)

\* Series.mean(): the sum over the count, kept as the pair of the two
Mean(vals) == IF vals = <<>> THEN NaN ELSE <<SumOf(vals, 1), Len(vals)>>

\* the k-th smallest of the values
KthSmallest(vals, k) ==
    CHOOSE v \in {vals[i] : i \in 1..Len(vals)} :
        /\ Cardinality({i \in 1..Len(vals) : vals[i] < v}) < k
        /\ Cardinality({i \in 1..Len(vals) : vals[i] <= v}) >= k

\* Series.median(): the middle value, or the mean of the two middle ones
Median(vals) ==
    LET n == Len(vals)
    IN  IF n = 0 THEN NaN
        ELSE IF n % 2 = 1 THEN <<KthSmallest(vals, (n + 1) \div 2), 1>>
        ELSE <<KthSmallest(vals, n \div 2) + KthSmallest(vals, n \div 2 + 1), 2>>

\* Series.max() and Series.min()
Longest(vals) == IF vals = <<>> THEN NaN ELSE Num(KthSmallest(vals, Len(vals)))

Shortest(vals) == IF vals = <<>> THEN NaN ELSE Num(KthSmallest(vals, 1))

\* len(text.split()): the runs of characters that are not whitespace
WordCount(text) ==
    Cardinality({i \in 1..Len(text) :
                    /\ text[i] \notin Whitespace
                    /\ i = 1 \/ text[i - 1] \in Whitespace})

\* line 398: df[df['message'] != '<Media omitted>\n']
df_clean(frame) ==
    SelectSeq(frame, LAMBDA r : r.message # MediaMarker \o <<LF>>)

\* helper.get_message_length_stats for a DataFrame that has its columns
get_message_length_stats(selected_user, frame) ==
    LET chosen == IF selected_user # AllUsers
                  THEN SelectSeq(frame, LAMBDA r : r.user = selected_user)
                  ELSE frame
        kept == df_clean(chosen)
        message_length == [i \in 1..Len(kept) |-> Len(kept[i].message)]
        word_count == [i \in 1..Len(kept) |-> WordCount(kept[i].message)]
    IN  [avg_message_length |-> Mean(message_length),
         median_message_length |-> Median(message_length),
         avg_words_per_message |-> Mean(word_count),
         longest_message |-> Longest(message_length),
         shortest_message |-> Shortest(message_length)]

\* the KeyError of df['message'] on the DataFrame without columns that
\* preprocess returns for a chat without records
KeyError == <<"KeyError">>

---------------------------------------------------------------------------
(* helper.fetch_busy_users                                                 *)

\* the user names fetch_busy_users filters out, line 157
NotificationUsers ==
    {<<"g", "r", "o", "u", "p", "_", "n", "o", "t", "i", "f", "i", "c", "a",
     "t", "i", "o", "n">>,
     <<"n", "o", "t", "i", "f", "i", "c", "a", "t", "i", "o", "n">>,
     <<"G", "r", "o", "u", "p", " ", "n", "o", "t", "i", "f", "i", "c", "a",
     "t", "i", "o", "n">>,
     unknown}

\* df[~df['user'].isin([...])], line 157
df_clean_users(frame) ==
    SelectSeq(frame, LAMBDA r : r.user \notin NotificationUsers)

\* the number of rows of a user
CountOf(frame, u) == Cardinality({i \in 1..Len(frame) : frame[i].user = u})

RECURSIVE Descending(_, _)
\* the arrangements of the users of U by descending number of rows; users
\* with equally many rows come in any order
Descending(frame, U) ==
    IF U = {} THEN {<<>>}
    ELSE UNION {{<<[user |-> u, count |-> CountOf(frame, u)]>> \o rest :
                    rest \in Descending(frame, U \ {u})} :
                u \in {v \in U : \A w \in U :
                                    CountOf(frame, v) >= CountOf(frame, w)}}

\* Series.value_counts(): the users with their numbers of rows, descending
value_counts(frame) ==
    Descending(frame, {frame[i].user : i \in 1..Len(frame)})

\* the number of rows Series.head() keeps
HeadRows == 5

\* Series.head()
head(counts) ==
    IF Len(counts) <= HeadRows THEN counts ELSE SubSeq(counts, 1, HeadRows)

\* round(count / total * 100, 2), in hundredths of a percent; a tie goes to
\* the even hundredth
Percentage(count, total) ==
    LET q == (count * 10000) \div total
        r == (count * 10000) % total
    IN  IF 2 * r > total \/ (2 * r = total /\ q % 2 = 1) THEN q + 1 ELSE q

\* the results fetch_busy_users can return for a DataFrame that has its
\* columns: the five busiest users and the share of every user
fetch_busy_users(frame) ==
    LET kept == df_clean_users(frame)
    IN  {[busy_users |-> head(counts),
          percentage_df |->
              [i \in 1..Len(counts) |->
                  [User |-> counts[i].user,
                   Percentage |-> Percentage(counts[i].count, Len(kept))]]] :
            counts \in value_counts(kept)}

---------------------------------------------------------------------------
(* enhance_dataframe on the records of a Dataset                           *)

\* the columns date, user and message of a DataFrame
BaseRecords(frame) ==
    [i \in 1..Len(frame) |->
        [date |-> frame[i].date, user |-> frame[i].user,
         message |-> frame[i].message]]

\* enhance_dataframe on rows whose date column holds Timestamps, as
\* create_sample_data calls it: no Timestamp equals 'unknown', and
\* pd.to_datetime returns a Timestamp as it is under the first format
enhance_dataframe_of_records(rows) ==
    LET valid == DropNaT(Frame(rows))
    IN  IF rows = <<>> \/ valid = <<>> THEN {<<>>}
        ELSE {[i \in 1..Len(sorted) |-> EnrichRow(sorted[i], installed)] :
                 sorted \in sort_values(valid), installed \in ImportOutcomes}

---------------------------------------------------------------------------
(* The uploads the pipeline is run on                                      *)

\* the greatest number of lines of an upload
MaxLines == 3

Date_3_4_23 == <<"3", "/", "4", "/", "2", "3">>

At_10_00_AM == <<",", " ", "1", "0", ":", "0", "0", " ", "A", "M">>

\* "3/4/23, 10:00 AM - Al: hi"
LineAl ==
    Date_3_4_23 \o At_10_00_AM \o <<" ", "-", " ", "A", "l", ":", " ", "h", "i">>

\* "3/4/23, 10:00 AM -  : ok" behind a left-to-right mark: the same minute,
\* and a user of one space
LineBo ==
    <<LRM>> \o Date_3_4_23 \o At_10_00_AM
        \o <<" ", "-", " ", " ", ":", " ", "o", "k">>

\* "1/2/23, 0:05 AM - Al joined": a notification, and an hour no %I accepts
LineJoined ==
    <<"1", "/", "2", "/", "2", "3", ",", " ", "0", ":", "0", "5", " ", "A", "M",
      " ", "-", " ", "A", "l", " ", "j", "o", "i", "n", "e", "d">>

\* "13/4/23, 10:00 AM - Al: hi": day first
LineDayFirst ==
    <<"1", "3", "/", "4", "/", "2", "3">> \o At_10_00_AM
        \o <<" ", "-", " ", "A", "l", ":", " ", "h", "i">>

\* "13/13/23, 10:00 AM - Al: hi": no month 13
LineNoDate ==
    <<"1", "3", "/", "1", "3", "/", "2", "3">> \o At_10_00_AM
        \o <<" ", "-", " ", "A", "l", ":", " ", "h", "i">>

\* "3/4/23, 10:00 AM: hi": a timestamp without the " - " of any layout
LineNoDash == Date_3_4_23 \o At_10_00_AM \o <<":", " ", "h", "i">>

\* "ok": wrapped text
LineText == <<"o", "k">>

\* "3/4/23, 09:30 - Bo: yo": the 24-hour layout
Line24h ==
    Date_3_4_23 \o <<",", " ", "0", "9", ":", "3", "0", " ", "-", " ", "B", "o",
                     ":", " ", "y", "o">>

\* a line of one control character, empty once cleaned
LineBlank == <<BEL>>

Corpus == {LineAl, LineBo, LineJoined, LineNoDate, LineNoDash, LineText}

RECURSIVE SeqsUpTo(_, _)
\* the sequences of at most n elements of S
SeqsUpTo(S, n) ==
    IF n = 0 THEN {<<>>}
    ELSE LET shorter == SeqsUpTo(S, n - 1)
         IN  shorter \cup {Append(q, x) : q \in shorter, x \in S}

\* one line of each export layout detect_date_format knows, in the order of
\* its candidates, and wrapped text
Date_3_4_2023 == <<"3", "/", "4", "/", "2", "0", "2", "3">>

\* "3/4/2023, 10:00 AM - Al: hi"
LineYear4 ==
    Date_3_4_2023 \o At_10_00_AM \o <<" ", "-", " ", "A", "l", ":", " ", "h", "i">>

\* "3/4/2023, 09:30 - Bo: yo"
LineYear4h24 ==
    Date_3_4_2023 \o <<",", " ", "0", "9", ":", "3", "0", " ", "-", " ", "B", "o",
                       ":", " ", "y", "o">>

\* "[3/4/23, 10:00 AM] Al: hi"
LineBracket ==
    <<"[">> \o Date_3_4_23 \o At_10_00_AM \o <<"]", " ", "A", "l", ":", " ", "h", "i">>

\* "4.3.23, 9:30 - Al: hi"
LineDot ==
    <<"4", ".", "3", ".", "2", "3", ",", " ", "9", ":", "3", "0", " ", "-", " ",
      "A", "l", ":", " ", "h", "i">>

\* "2023-03-04, 09:30:15 - Al: hi"
LineIso ==
    <<"2", "0", "2", "3", "-", "0", "3", "-", "0", "4", ",", " ", "0", "9", ":",
      "3", "0", ":", "1", "5", " ", "-", " ", "A", "l", ":", " ", "h", "i">>

LayoutCorpus == {LineAl, LineYear4, Line24h, LineYear4h24, LineBracket,
                 LineDot, LineIso, LineText}

\* the layouts, and the lines that are read day first or cleaned away
MixedCorpus == LayoutCorpus \cup {LineDayFirst, LineBlank}

\* the greatest number of lines of an upload that mixes the layouts
MaxLayoutLines == 2

\* n lines of wrapped text
Pad(n) == [i \in 1..n |-> LineText]

\* uploads whose last line is the last one detect_date_format scans, or the
\* first one it does not
PaddedUploads ==
    {Pad(n) \o <<l>> : n \in {ScanWindow - 1, ScanWindow}, l \in LayoutCorpus}
    \cup {<<h>> \o Pad(n) \o <<l>> :
             n \in {ScanWindow - 2, ScanWindow - 1},
             h \in LayoutCorpus, l \in LayoutCorpus}

\* the decimal digit of a number below ten
DigitChar(n) == CHOOSE c \in Digits : DigitVal(c) = n

\* a number below one hundred written with two digits
TwoDigits(n) == <<DigitChar(n \div 10), DigitChar(n % 10)>>

\* "3/d/23, 10:00 AM - Al: hi" for a day of the first ten days of March
DayLine(d) ==
    <<"3", "/", DigitChar(d), "/", "2", "3">> \o At_10_00_AM
        \o <<" ", "-", " ", "A", "l", ":", " ", "h", "i">>

\* "3/4/09, 10:00 AM - Al: hi": fourteen years before the other messages
LineOld ==
    <<"3", "/", "4", "/", "0", "9">> \o At_10_00_AM
        \o <<" ", "-", " ", "A", "l", ":", " ", "h", "i">>

\* one message on each day of a week, a chat that runs from a Friday to the
\* Monday after it, and a chat that ends with a message of long ago
DayUploads ==
    {<<DayLine(d)>> : d \in 3..9}
    \cup {<<DayLine(3), DayLine(4), DayLine(5), DayLine(6)>>}
    \cup {<<LineAl, LineJoined, LineOld>>}

\* "3/4/23, 10:00 AM - Al: " before a body
BodyLine(body) ==
    Date_3_4_23 \o At_10_00_AM \o <<" ", "-", " ", "A", "l", ":", " ">> \o body

\* chats with a media placeholder or a deleted message: alone, wrapped onto
\* a second line, and next to a message of text
BodyUploads ==
    {<<BodyLine(m)>> \o rest :
        m \in {MediaMarker, DeletedMarker},
        rest \in {<<>>, <<LineText>>, <<LineAl>>}}

\* "3/4/23, 10:00 AM - Al: re: ok", "3/4/23, 10:00 AM - : ok" and
\* "3/4/23, 10:00 AM - Al: ": a body with a ": " of its own, no name before the
\* ": ", and no body after it
ColonUploads ==
    {<<BodyLine(<<"r", "e", ":", " ", "o", "k">>)>>,
     <<Date_3_4_23 \o At_10_00_AM \o <<" ", "-", " ", ":", " ", "o", "k">>>>,
     <<BodyLine(<<>>), LineAl>>,
     <<LineAl, LineBo, LineJoined, BodyLine(<<"r", "e", ":", " ", "o", "k">>)>>}

HoursOfDay == 0..23

\* "3/4/23, HH:00 - u: yo" for an hour of the 24-hour clock and an author
AuthorLine(h, u) ==
    Date_3_4_23 \o <<",", " ">> \o TwoDigits(h)
        \o <<":", "0", "0", " ", "-", " ", u, ":", " ", "y", "o">>

\* "3/4/23, 07:00 - Al joined"
LineJoined24 ==
    Date_3_4_23
        \o <<",", " ", "0", "7", ":", "0", "0", " ", "-", " ", "A", "l", " ",
             "j", "o", "i", "n", "e", "d">>

\* a chat of five authors and a notification, more users than head() keeps
BusyUploads ==
    {<<AuthorLine(1, "a"), AuthorLine(2, "b"), AuthorLine(3, "c"),
       AuthorLine(4, "d"), AuthorLine(5, "e"), AuthorLine(6, "a"),
       LineJoined24>>}

\* "3/4/23, HH:00 - Bo: yo" for an hour of the 24-hour clock
HourLine(h) ==
    Date_3_4_23 \o <<",", " ">> \o TwoDigits(h)
        \o <<":", "0", "0", " ", "-", " ", "B", "o", ":", " ", "y", "o">>

\* one message at each hour of the day, and one chat with a message at each
\* hour where a time period starts
HourUploads ==
    {<<HourLine(h)>> : h \in HoursOfDay}
    \cup {<<HourLine(21), HourLine(5), HourLine(12), HourLine(17)>>}

\* chats with emoji in a body: two adjacent, one after a word, two with a
\* space between them, and two adjacent in a chat of two messages
EmojiUploads ==
    {<<BodyLine(<<PartyPopper, GrinningFace>>)>>,
     <<BodyLine(<<"o", "k", " ", PartyPopper>>)>>,
     <<BodyLine(<<PartyPopper, " ", GrinningFace>>)>>,
     <<LineBo, BodyLine(<<GrinningFace, GrinningFace>>)>>}

Uploads ==
    SeqsUpTo(Corpus, MaxLines) \cup SeqsUpTo(MixedCorpus, MaxLayoutLines)
        \cup PaddedUploads \cup HourUploads \cup DayUploads \cup BodyUploads
        \cup ColonUploads \cup EmojiUploads \cup BusyUploads

\* the lines as file.readlines() returns them, each with its line feed
Terminated(lines) == [i \in 1..Len(lines) |-> lines[i] \o <<LF>>]

\* the greatest number of lines of a file named by its path
MaxPathLines == 2

\* the arguments of preprocess: an uploaded file object whose read() gives
\* the text or raises, and a path that names a file, names none, or names
\* one that cannot be read
Arguments ==
    {[kind |-> "file", read |-> "ok", lines |-> u] : u \in Uploads}
    \cup {[kind |-> "path", read |-> "ok", lines |-> Terminated(u)] :
             u \in SeqsUpTo({LineAl, LineText, LineBlank}, MaxPathLines)}
    \cup {[kind |-> "file", read |-> "error", lines |-> <<>>]}
    \cup {[kind |-> "path", read |-> r, lines |-> <<>>] :
             r \in {"missing", "error"}}

---------------------------------------------------------------------------
(* preprocess                                                              *)

\* "Clean and normalize lines"
Normalized(lines) ==
    SelectSeq([i \in 1..Len(lines) |-> clean_text(lines[i])],
              LAMBDA l : l # <<>>)

Init ==
    /\ uploaded_file \in Arguments
    /\ raw_lines = <<>>
    /\ normalized_lines = <<>>
    /\ date_pattern = <<>>
    /\ date_format = <<>>
    /\ idx = 0
    /\ grouped = <<>>
    /\ current_msg = <<>>
    /\ data = <<>>
    /\ df = <<>>
    /\ validation_issues = <<>>
    /\ stats = <<>>
    /\ length_stats = <<>>
    /\ df_again = <<>>
    /\ fetched = <<>>
    /\ pc = "read"

\* lines 87-123: the lines of a file object (content.splitlines()) or of the
\* file at a path (file.readlines()).  latin-1 decodes every byte string, so
\* the decoding never gives up.  A path that names no file fails each open
\* with FileNotFoundError and returns the empty DataFrame at line 120; any
\* other failure of read() or open() leaves the try block for line 158.
Read ==
    /\ pc = "read"
    /\ raw_lines' = uploaded_file.lines
    /\ pc' = IF uploaded_file.read = "error" THEN "except"
             ELSE IF uploaded_file.read = "missing" \/ raw_lines' = <<>>
                  THEN "done"
             ELSE "normalize"
    /\ UNCHANGED <<uploaded_file, normalized_lines, date_pattern, date_format,
                   idx, grouped, current_msg, data, df, downstream>>

\* lines 158-160: the handler of every Exception returns the empty DataFrame
HandleException ==
    /\ pc = "except"
    /\ df' = <<>>
    /\ pc' = "done"
    /\ UNCHANGED <<uploaded_file, raw_lines, normalized_lines, date_pattern,
                   date_format, idx, grouped, current_msg, data, downstream>>

\* lines 122-133: an upload without a usable line returns the empty DataFrame
Normalize ==
    /\ pc = "normalize"
    /\ normalized_lines' = Normalized(raw_lines)
    /\ pc' = IF normalized_lines' = <<>> THEN "done" ELSE "detect"
    /\ UNCHANGED <<uploaded_file, downstream>>
    /\ UNCHANGED <<raw_lines, date_pattern, date_format, idx, grouped,
                   current_msg, data, df>>

\* line 136
Detect ==
    /\ pc = "detect"
    /\ date_pattern' = detect_date_format(normalized_lines)[1]
    /\ date_format' = detect_date_format(normalized_lines)[2]
    /\ pc' = "group"
    /\ UNCHANGED <<uploaded_file, downstream>>
    /\ UNCHANGED <<raw_lines, normalized_lines, idx, grouped, current_msg,
                   data, df>>

\* one iteration of the loop of group_messages
GroupLine ==
    /\ pc = "group"
    /\ idx < Len(normalized_lines)
    /\ LET st == GroupStep(grouped, current_msg, normalized_lines[idx + 1],
                           date_pattern)
       IN  /\ grouped' = st.grouped
           /\ current_msg' = st.current_msg
    /\ idx' = idx + 1
    /\ UNCHANGED <<uploaded_file, downstream>>
    /\ UNCHANGED <<raw_lines, normalized_lines, date_pattern, date_format,
                   data, df, pc>>

\* the end of group_messages, and lines 141-142
GroupEnd ==
    /\ pc = "group"
    /\ idx = Len(normalized_lines)
    /\ grouped' = GroupFlush(grouped, current_msg)
    /\ pc' = IF grouped' = <<>> THEN "done" ELSE "extract"
    /\ UNCHANGED <<uploaded_file, downstream>>
    /\ UNCHANGED <<raw_lines, normalized_lines, date_pattern, date_format,
                   idx, current_msg, data, df>>

\* lines 145-148
Extract ==
    /\ pc = "extract"
    /\ data' = extract_message_data(grouped)
    /\ pc' = IF data' = <<>> THEN "done" ELSE "enhance"
    /\ UNCHANGED <<uploaded_file, downstream>>
    /\ UNCHANGED <<raw_lines, normalized_lines, date_pattern, date_format,
                   idx, grouped, current_msg, df>>

\* lines 151-156
Enhance ==
    /\ pc = "enhance"
    /\ df' \in enhance_dataframe(data)
    /\ pc' = "done"
    /\ UNCHANGED <<uploaded_file, downstream>>
    /\ UNCHANGED <<raw_lines, normalized_lines, date_pattern, date_format,
                   idx, grouped, current_msg, data>>

\* validate_dataframe on the DataFrame preprocess has returned
Validate ==
    /\ pc = "done"
    /\ df' = validate_dataframe(df).df
    /\ validation_issues' = validate_dataframe(df).issues
    /\ pc' = "validated"
    /\ UNCHANGED <<uploaded_file, raw_lines, normalized_lines, date_pattern,
                   date_format, idx, grouped, current_msg, data, stats,
                   length_stats, df_again, fetched>>

\* get_preprocessing_stats on the validated DataFrame
Stats ==
    /\ pc = "validated"
    /\ stats' = get_preprocessing_stats(df)
    /\ pc' = "reported"
    /\ UNCHANGED <<uploaded_file, raw_lines, normalized_lines, date_pattern,
                   date_format, idx, grouped, current_msg, data, df,
                   validation_issues, length_stats, df_again, fetched>>

\* helper.get_message_length_stats on the DataFrame preprocess has returned,
\* for all users or for one of its users
MessageLengthStats ==
    /\ pc = "done"
    /\ \E selected_user \in {AllUsers} \cup {df[i].user : i \in 1..Len(df)} :
          length_stats' =
              IF df = <<>> THEN KeyError
              ELSE [selected_user |-> selected_user,
                    stats |-> get_message_length_stats(selected_user, df)]
    /\ pc' = "measured"
    /\ UNCHANGED <<uploaded_file, raw_lines, normalized_lines, date_pattern,
                   date_format, idx, grouped, current_msg, data, df,
                   validation_issues, stats, df_again, fetched>>

\* enhance_dataframe on the timestamp, user and body of the records of the
\* DataFrame preprocess has returned, in the interpreter that returned it:
\* "import emoji" has the outcome it had
EnhanceAgain ==
    /\ pc = "done"
    /\ \E installed \in ImportOutcomes :
          /\ \A i \in 1..Len(df) :
                df[i].emoji_count = count_emojis(df[i].message, installed)
          /\ df_again' \in
                {again \in enhance_dataframe_of_records(BaseRecords(df)) :
                    \A i \in 1..Len(again) :
                        again[i].emoji_count =
                            count_emojis(again[i].message, installed)}
    /\ pc' = "enhanced again"
    /\ UNCHANGED <<uploaded_file, raw_lines, normalized_lines, date_pattern,
                   date_format, idx, grouped, current_msg, data, df,
                   validation_issues, stats, length_stats, fetched>>

\* helper.fetch_busy_users on the DataFrame preprocess has returned
FetchBusyUsers ==
    /\ pc = "done"
    /\ fetched' \in IF df = <<>> THEN {KeyError} ELSE fetch_busy_users(df)
    /\ pc' = "fetched"
    /\ UNCHANGED <<uploaded_file, raw_lines, normalized_lines, date_pattern,
                   date_format, idx, grouped, current_msg, data, df,
                   validation_issues, stats, length_stats, df_again>>

Next ==
    \/ Read
    \/ HandleException
    \/ Normalize
    \/ Detect
    \/ GroupLine
    \/ GroupEnd
    \/ Extract
    \/ Enhance
    \/ Validate
    \/ Stats
    \/ MessageLengthStats
    \/ EnhanceAgain
    \/ FetchBusyUsers

Spec == Init /\ [][Next]_vars

---------------------------------------------------------------------------
(* Vocabulary of the properties                                            *)

\* group_messages has returned
GroupingDone ==
    \/ pc \in {"extract", "enhance"}
    \/ pc = "done" /\ normalized_lines # <<>>

\* the lines that start a logical message under the detected pattern
Boundaries ==
    {i \in 1..Len(normalized_lines) : ReMatch(date_pattern, normalized_lines[i])}

\* the boundary of B after b, or the position past the last line
NextBoundary(B, b) ==
    LET later == {j \in B : j > b}
    IN  IF later = {} THEN Len(normalized_lines) + 1 ELSE Least(later)

\* the number of boundaries of B up to and including b
Rank(B, b) == Cardinality({j \in B : j <= b})

RECURSIVE JoinSpace(_, _, _)
\* lines[i], ..., lines[j] joined by single spaces
JoinSpace(lines, i, j) ==
    IF i = j THEN lines[i]
    ELSE JoinSpace(lines, i, j - 1) \o <<" ">> \o lines[j]

RECURSIVE CharsWithBreaks(_, _)
\* the characters of the texts from the i-th on, one more for each text
CharsWithBreaks(texts, i) ==
    IF i > Len(texts) THEN 0
    ELSE Len(texts[i]) + 1 + CharsWithBreaks(texts, i + 1)

\* no line matches any boundary pattern of the candidate list
NoCandidateMatches ==
    \A i \in 1..Len(normalized_lines) : \A k \in 1..Len(date_patterns) :
        ~ReMatch(date_patterns[k], normalized_lines[i])

\* the structural patterns that match a text
FirstMatching(entry) ==
    {k \in 1..Len(patterns) : StructMatch(patterns[k], entry).matched}

\* the logical messages no structural pattern matches
Sentinels ==
    {i \in 1..Len(grouped) : FirstMatching(clean_text(grouped[i])) = {}}

\* the date text the extractor has taken from the i-th logical message
DateText(i) == data[i].date

\* the logical messages with a date text that nothing resolves
Unresolved ==
    {i \in (1..Len(data)) \ Sentinels : parse_date_flexible(DateText(i)) = NaT}

\* the logical messages the records of the Dataset come from
Sources == {df[i].src : i \in 1..Len(df)}

\* the user group of the pattern that matched the i-th logical message
CapturedUser(i) ==
    LET entry == clean_text(grouped[i])
    IN  StructMatch(patterns[FirstPattern(entry, 1)], entry).g3

\* the extractor captured no user, or one that is empty once cleaned
NoUser(i) ==
    LET g3 == CapturedUser(i)
    IN  g3 = None \/ clean_text(g3) = <<>>

---------------------------------------------------------------------------
(* Properties                                                              *)

\* C1: the Dataset preprocess returns is sorted non-decreasing by timestamp,
\* whatever the order of the messages in the input.
C1_SortedByTimestamp ==
    pc = "done" =>
        \A i \in 1..(Len(df) - 1) : TsLeq(df[i].date, df[i + 1].date)

\* a Dataset whose first two records arrived in the opposite order
C1_Witness ==
    /\ pc = "done"
    /\ Len(df) >= 2
    /\ df[1].src > df[2].src
    /\ df[1].date # df[2].date

\* C2: the final sort is stable: records with equal timestamps keep the
\* relative order of their logical messages, that is, the Dataset reads as the
\* arrangement that keeps them in input order.
C2_StableSort ==
    pc = "done" =>
        \E kept \in enhance_dataframe(data) :
            /\ \A i, j \in 1..Len(kept) :
                  (i < j /\ kept[i].date = kept[j].date)
                      => kept[i].src < kept[j].src
            /\ Len(df) = Len(kept)
            /\ \A i \in 1..Len(df) :
                  /\ df[i].date = kept[i].date
                  /\ df[i].user = kept[i].user
                  /\ df[i].message = kept[i].message

\* C3: group_messages returns one logical message per boundary line, in input
\* order, each the boundary line and the lines up to the next boundary joined
\* by single spaces; the last accumulation is flushed at the end of the input.
C3_OneMessagePerBoundary ==
    GroupingDone =>
        LET B == Boundaries
        IN  /\ Len(grouped) = Cardinality(B)
            /\ \A b \in B :
                  grouped[Rank(B, b)] =
                      JoinSpace(normalized_lines, b, NextBoundary(B, b) - 1)

\* two messages out of three lines: one of them carries a continuation
C3_Witness ==
    /\ pc = "extract"
    /\ Len(normalized_lines) = 3
    /\ Len(grouped) = 2
    /\ Boundaries \in {{1, 3}, {2, 3}}

\* C4: a non-matching line that arrives before any boundary line is discarded:
\* it starts no accumulation, and it is part of no logical message.
C4_OrphanDiscarded ==
    /\ (pc = "group" /\ (grouped # <<>> \/ current_msg # <<>>)) =>
           \E j \in 1..idx : ReMatch(date_pattern, normalized_lines[j])
    /\ GroupingDone =>
           LET B == Boundaries
           IN  B # {} => CharsWithBreaks(grouped, 1) =
                             CharsWithBreaks(normalized_lines, Least(B))

\* the loop has consumed an orphan and a boundary line is still to come
C4_Witness ==
    /\ pc = "group"
    /\ idx >= 1
    /\ \A j \in 1..idx : ~ReMatch(date_pattern, normalized_lines[j])
    /\ Boundaries # {}

\* C5: when no line matches any boundary pattern of the candidate list,
\* preprocess returns the empty Dataset at the check after grouping.
C5_NoBoundaryNoRecords ==
    (grouped # <<>> \/ data # <<>> \/ df # <<>> \/ pc \in {"extract", "enhance"})
        => ~NoCandidateMatches

\* an upload of continuation-shaped lines only, grouped and returned
C5_Witness ==
    /\ pc = "done"
    /\ normalized_lines # <<>>
    /\ idx = Len(normalized_lines)
    /\ NoCandidateMatches

\* C6: the logical messages are the records of the Dataset plus the dropped
\* units (sentinels and unresolved dates), none counted twice or lost.
C6_DroppedAccounting ==
    pc = "done" =>
        LET dropped == Sentinels \cup Unresolved
        IN  /\ Len(grouped) = Len(df) + Cardinality(dropped)
            /\ Cardinality(Sources) = Len(df)
            /\ Sources = (1..Len(grouped)) \ dropped

\* a run with a record, a sentinel and an unresolved date
C6_Witness ==
    /\ pc = "done"
    /\ df # <<>>
    /\ Sentinels # {}
    /\ Unresolved # {}

\* C7: a logical message that no structural pattern matches gets the date text
\* 'unknown' and is never a record of the Dataset.
C7_UnparsedNeverARecord ==
    pc \in {"enhance", "done"} =>
        LET unparsed == Sentinels
        IN  /\ \A i \in unparsed : data[i].date = unknown
            /\ Sources \cap unparsed = {}

\* a Dataset from a run that also had an unparsed logical message
C7_Witness ==
    /\ pc = "done"
    /\ df # <<>>
    /\ Sentinels # {}

\* C8: every record has a non-empty user, which is 'system_notification' when
\* the extractor captured no user or one that is empty once cleaned.
C8_UserNeverEmpty ==
    /\ pc = "enhance" =>
          \A i \in (1..Len(data)) \ Sentinels :
              /\ data[i].user \notin {<<>>, None}
              /\ data[i].user # system_notification => ~NoUser(i)
    /\ pc = "done" =>
          \A i \in 1..Len(df) :
              /\ df[i].user \notin {<<>>, None}
              /\ df[i].user # system_notification => ~NoUser(df[i].src)

\* a Dataset with a notification, a user of one space and a named user
C8_Witness ==
    /\ pc = "done"
    /\ \E i, j, k \in 1..Len(df) :
          /\ CapturedUser(df[i].src) = None
          /\ CapturedUser(df[j].src) = <<" ">>
          /\ df[k].user # system_notification

\* the candidates that match one of the lines detect_date_format scans
MatchingCandidates ==
    {k \in 1..Len(date_patterns) :
        \E i \in 1..Len(normalized_lines) :
            i <= 20 /\ ReMatch(date_patterns[k], normalized_lines[i])}

\* C9: detect_date_format returns the earliest pair of the candidate list whose
\* pattern matches one of the first 20 lines, later lines being ignored, and
\* the pair of the two-digit-year 12-hour layout when no candidate matches.
C9_EarliestCandidate ==
    (pc = "group" /\ idx = 0) =>
        IF MatchingCandidates = {}
        THEN /\ date_pattern = SlashDate(2) \o CommaSpace \o Time12
             /\ date_format = F_mdy_12
        ELSE LET k == Least(MatchingCandidates)
             IN  /\ date_pattern = date_patterns[k]
                 /\ date_format = format_strings[k]

\* the 21st line is of the first layout and the third candidate was detected
C9_Witness ==
    /\ pc = "group"
    /\ Len(normalized_lines) = 21
    /\ ReMatch(date_patterns[1], normalized_lines[21])
    /\ date_pattern = date_patterns[3]

\* C10: when the format chosen by the detector parses a record's date text,
\* that parse is the record's timestamp.
C10_DetectedFormatWins ==
    pc = "done" =>
        \A i \in 1..Len(df) :
            LET t == Strptime(date_format, DateText(df[i].src))
            IN  t # NaT => df[i].date = t

\* a record resolved by a detected format that is not the first of the list,
\* from a date text that also reads day first
C10_Witness ==
    /\ pc = "done"
    /\ date_format = F_mdy_24
    /\ \E i \in 1..Len(df) :
          /\ Strptime(date_format, DateText(df[i].src)) # NaT
          /\ Strptime(F_dmy_24, DateText(df[i].src)) # NaT

\* the first two numbers of the slash-separated date text the i-th record was
\* resolved from, or the empty tuple for a date text of another shape
SlashNumbers(i) ==
    LET text == data[df[i].src].date
        la == NumRun(text, 0)
        lb == NumRun(text, la + 1)
    IN  IF la > 0 /\ CharAt(text, la + 1) = "/" /\ lb > 0
            /\ CharAt(text, la + 1 + lb + 1) = "/"
        THEN <<NumAt(text, 0, la), NumAt(text, la + 1, lb)>>
        ELSE <<>>

\* the i-th record has the first number of its date as its month
ResolvedMonthFirst(i) ==
    LET n == SlashNumbers(i)
    IN  n # <<>> /\ n[1] # n[2] /\ df[i].month_num = n[1] /\ df[i].day = n[2]

\* the i-th record has the first number of its date as its day
ResolvedDayFirst(i) ==
    LET n == SlashNumbers(i)
    IN  n # <<>> /\ n[1] # n[2] /\ df[i].day = n[1] /\ df[i].month_num = n[2]

\* C11: within one run the slash-separated dates are read in one order: no
\* Dataset holds a record resolved month first and another resolved day first.
C11_ConsistentDayMonth ==
    pc = "done" =>
        ~ \E i, j \in 1..Len(df) :
              ResolvedMonthFirst(i) /\ ResolvedDayFirst(j)

\* C12: the time_period of every record is Morning exactly for the hours 5
\* to 11, Afternoon for 12 to 16, Evening for 17 to 20 and Night for 21 to 23
\* and 0 to 4, so that the hours 5, 12, 17 and 21 open their periods.
C12_TimePeriodBuckets ==
    pc = "done" =>
        \A i \in 1..Len(df) :
            LET h == df[i].hour
                t == df[i].time_period
            IN  /\ h \in HoursOfDay
                /\ t \in {"Morning", "Afternoon", "Evening", "Night"}
                /\ t = "Morning" <=> (5 <= h /\ h < 12)
                /\ t = "Afternoon" <=> (12 <= h /\ h < 17)
                /\ t = "Evening" <=> (17 <= h /\ h < 21)
                /\ t = "Night" <=> (h >= 21 \/ h <= 4)

\* a Dataset with a record at each of the hours 5, 12, 17 and 21
C12_Witness ==
    /\ pc = "done"
    /\ \A b \in {<<5, "Morning">>, <<12, "Afternoon">>, <<17, "Evening">>,
                  <<21, "Night">>} :
          \E i \in 1..Len(df) :
              df[i].hour = b[1] /\ df[i].time_period = b[2]

\* C13: is_weekend is true for exactly the records whose day_name is Saturday
\* or Sunday.
C13_WeekendIffSaturdaySunday ==
    pc = "done" =>
        \A i \in 1..Len(df) :
            df[i].is_weekend <=> df[i].day_name \in {"Saturday", "Sunday"}

\* a Dataset that runs from a Friday over the weekend to a Monday
C13_Witness ==
    /\ pc = "done"
    /\ \A n \in {"Friday", "Saturday", "Sunday", "Monday"} :
          \E i \in 1..Len(df) :
              /\ df[i].day_name = n
              /\ df[i].is_weekend <=> n \in {"Saturday", "Sunday"}

\* C14: is_media is true exactly when the body equals the media marker and
\* is_deleted exactly when it equals the deletion marker; a body that holds a
\* marker inside longer text has both flags false.
C14_MarkersMatchExactly ==
    pc = "done" =>
        \A i \in 1..Len(df) :
            /\ df[i].is_media <=> df[i].message = MediaMarker
            /\ df[i].is_deleted <=> df[i].message = DeletedMarker

\* the records of the Dataset whose body is not the media marker
WithoutMedia == SelectSeq(df, LAMBDA r : r.message # MediaMarker)

\* C15: a record whose body equals the media marker is left out of the
\* downstream word and message-length statistics: the statistics are those of
\* the Dataset without such records.
C15_MediaExcludedFromStatistics ==
    (pc = "measured" /\ df # <<>>) =>
        length_stats.stats =
            get_message_length_stats(length_stats.selected_user, WithoutMedia)

\* the fields of a record that enrichment derives, and the three it reads
DerivedFields ==
    {"year", "month_num", "day", "hour", "minute", "day_name", "time_period",
     "is_weekend", "message_length", "is_media", "is_deleted", "emoji_count",
     "has_emoji"}

BaseFields == {"date", "user", "message"}

\* C16: enrichment is idempotent and deterministic: run on the timestamp,
\* user and body of the records of a Dataset it gives the same records in the
\* same order with the same derived fields, and the derived fields of a
\* record depend on its timestamp and body alone.
C16_EnrichmentIdempotent ==
    pc = "enhanced again" =>
        /\ Len(df_again) = Len(df)
        /\ \A i \in 1..Len(df) : \A f \in BaseFields \cup DerivedFields :
              df_again[i][f] = df[i][f]
        /\ \A i, j \in 1..Len(df) :
              (df[i].date = df[j].date /\ df[i].message = df[j].message)
                  => \A f \in DerivedFields : df[i][f] = df[j][f]

\* C17: validate_dataframe never changes which records exist: the DataFrame
\* it returns has the rows it was given, in the same order, with the same
\* timestamps; what it produces is the list of issues.
C17_ValidateKeepsRecords ==
    [][(pc = "done" /\ pc' = "validated") =>
          /\ Len(df') = Len(df)
          /\ \A i \in 1..Len(df) :
                /\ df'[i].src = df[i].src
                /\ df'[i].date = df[i].date]_vars

\* a validated Dataset with a notification among its records, and an issue
\* reported on it
C17_Witness ==
    /\ pc = "validated"
    /\ Len(df) > 1
    /\ \E i \in 1..Len(df) : df[i].user = system_notification
    /\ validation_issues # <<>>

\* preprocess has a next step to take wherever it is before its return: the
\* loop of group_messages is within the lines, and enhance_dataframe has a
\* DataFrame to return
CanContinue ==
    /\ pc \in {"read", "except", "normalize", "detect", "group", "extract",
               "enhance", "done", "validated", "reported", "measured",
               "enhanced again", "fetched"}
    /\ pc = "group" => idx <= Len(normalized_lines)
    /\ pc = "enhance" => enhance_dataframe(data) # {}

\* the source was read and holds no line that is usable once cleaned
NoUsableLines ==
    uploaded_file.read = "ok" /\ Normalized(uploaded_file.lines) = <<>>

\* every attempt to read a date text fails: each format, and the general
\* parser after them
NoAttemptResolves(text) ==
    /\ \A k \in 1..Len(formats) : Strptime(formats[k], text) = NaT
    /\ GeneralParse(text) = NaT

\* there are logical messages, and each is unparsed or has a date text that
\* nothing resolves
NothingResolved ==
    /\ data # <<>>
    /\ \A i \in 1..Len(data) :
          data[i].date = unknown \/ NoAttemptResolves(data[i].date)

\* C18: preprocess never raises for malformed or empty input: a run on a
\* readable source always goes on to its return without entering the
\* exception handler, and an input without usable lines, one whose every
\* logical message is unparsed and one whose every date is unresolvable each
\* return the empty Dataset.
C18_MalformedInputReturnsEmpty ==
    /\ CanContinue
    /\ uploaded_file.read = "ok" => pc # "except"
    /\ (pc = "done" /\ (NoUsableLines \/ NothingResolved)) => df = <<>>

\* preprocess has returned the empty Dataset for a chat with an unparsed
\* message and a message whose date nothing resolves
C18_Witness ==
    /\ pc = "done"
    /\ NothingResolved
    /\ \E i \in 1..Len(data) : data[i].date = unknown
    /\ \E i \in 1..Len(data) : data[i].date # unknown
    /\ df = <<>>

\* preprocess has returned a DataFrame to its caller
Returned ==
    pc \in {"done", "validated", "reported", "measured", "enhanced again"}

\* C19: a source that cannot be read at all (a path that names no file, a
\* read that fails) is a hard failure that reaches the caller: preprocess
\* returns no Dataset for it, so that it is told apart from an empty chat.
C19_UnreadableSourcePropagates ==
    uploaded_file.read # "ok" => ~Returned

\* the records dropped because every attempt to read their date failed
DroppedForDate ==
    {i \in 1..Len(data) :
        data[i].date # unknown /\ NoAttemptResolves(data[i].date)}

\* the numbers the statistics hold, and the total less the valid dates
StatCounts ==
    LET counts == DOMAIN stats \cap {"total_messages", "valid_dates",
                                     "users_found", "media_messages",
                                     "deleted_messages"}
    IN  {stats[k] : k \in counts}
        \cup (IF "valid_dates" \in DOMAIN stats
              THEN {stats.total_messages - stats.valid_dates} ELSE {})

\* C20: the loss of records to unresolvable dates is observable: after a run
\* the statistics of get_preprocessing_stats hold the number of records that
\* were dropped because every date-format attempt failed.
C20_DroppedCountInStats ==
    pc = "reported" => Cardinality(DroppedForDate) \in StatCounts

\* the text between a timestamp of the detected layout and the 'user: body'
\* that follows it: "] " closes the bracketed layout, " - " every other
LayoutSeparator ==
    IF date_pattern = date_patterns[5] THEN <<Space>> ELSE SpaceDashSpace

\* the i-th logical message begins with a timestamp of the detected layout,
\* followed by the layout's separator and 'user: body'
OfDetectedLayout(i) ==
    LET entry == clean_text(grouped[i])
        ends == Ends(date_pattern \o LayoutSeparator, entry, {0})
    IN  \E e \in ends :
            FirstColonSpace(SubSeq(entry, e + 1, Len(entry)), 1) > 1

\* C21: every export layout the detector can select has an extractor pattern:
\* a logical message that begins with a timestamp of the detected layout, the
\* layout's separator and 'user: body' is matched by a structural pattern and
\* never becomes the 'unknown' sentinel.
C21_EveryLayoutExtracted ==
    pc = "enhance" =>
        \A i \in 1..Len(grouped) :
            OfDetectedLayout(i) => data[i].date # unknown

\* the text of the i-th logical message after the timestamp and the separator
\* of the structural pattern that matched it
AfterSeparator(i) ==
    LET entry == clean_text(grouped[i])
        pt == patterns[FirstPattern(entry, 1)]
        m == StructMatch(pt, entry)
        start == Len(pt.open) + Len(m.g1) + 2 + Len(m.g2) + Len(pt.close)
    IN  SubSeq(entry, start + 1, Len(entry))

\* the places of a ": " in a text
ColonSpaces(text) ==
    {c \in 1..(Len(text) - 1) : text[c] = ":" /\ text[c + 1] = " "}

\* the text before the first ": " and the text after it
BeforeColon(text) == SubSeq(text, 1, Least(ColonSpaces(text)) - 1)

AfterColon(text) == SubSeq(text, Least(ColonSpaces(text)) + 2, Len(text))

\* a text begins with 'name: ', the name being more than blanks
HasNamePrefix(text) ==
    ColonSpaces(text) # {} /\ clean_text(BeforeColon(text)) # <<>>

\* the logical messages a structural pattern matched
Matched == {i \in 1..Len(data) : data[i].date # unknown}

\* C22 as stated: the user is absent exactly when the text after the
\* separator has no 'name: ' prefix, and then the body is the whole remaining
\* text; otherwise the user is the text before the first ": " and the body
\* everything after it (each as cleaned by the extractor).
C22_UserBodySplit_Original ==
    pc = "enhance" =>
        \A i \in Matched :
            LET rest == AfterSeparator(i)
            IN  IF HasNamePrefix(rest)
                THEN /\ data[i].user = clean_text(BeforeColon(rest))
                     /\ data[i].message = clean_text(AfterColon(rest))
                ELSE /\ data[i].user = system_notification
                     /\ data[i].message = clean_text(rest)

\* C22, amended: the user is absent exactly when the text after the separator
\* has no 'name: ' prefix; the body is the whole remaining text when that text
\* holds no ": ", and everything after the first ": " when it does, also when
\* no name stands before that ": "; a missing body is the empty text.
C22_UserBodySplit ==
    pc = "enhance" =>
        \A i \in Matched :
            LET rest == AfterSeparator(i)
            IN  /\ data[i].user =
                      IF HasNamePrefix(rest) THEN clean_text(BeforeColon(rest))
                      ELSE system_notification
                /\ data[i].message =
                      IF ColonSpaces(rest) # {} THEN clean_text(AfterColon(rest))
                      ELSE clean_text(rest)

\* extracted rows of a notification, of a message with a blank name, of an
\* authored message and of a message whose body holds a ": "
C22_Witness ==
    /\ pc = "enhance"
    /\ \E i, j, k, l \in Matched :
          /\ ColonSpaces(AfterSeparator(i)) = {}
          /\ ColonSpaces(AfterSeparator(j)) # {}
          /\ ~HasNamePrefix(AfterSeparator(j))
          /\ HasNamePrefix(AfterSeparator(k))
          /\ Cardinality(ColonSpaces(AfterSeparator(l))) > 1
          /\ data[l].message = <<"r", "e", ":", " ", "o", "k">>

\* C23: for a logical message that no structural pattern matches the
\* extractor emits the sentinel: date text 'unknown', user absent (None) and
\* the raw text of the message as the body.
C23_SentinelFields ==
    pc = "enhance" =>
        \A i \in Sentinels :
            /\ data[i].date = unknown
            /\ data[i].user = None
            /\ data[i].message = grouped[i]

\* C24: the structural patterns are mutually exclusive: at most one pattern
\* of the list matches a logical message, so the row extracted from it is the
\* row of whichever matching pattern is tried first.
C24_PatternsExclusive ==
    pc = "enhance" =>
        \A i \in 1..Len(grouped) :
            LET entry == clean_text(grouped[i])
                matching == FirstMatching(entry)
            IN  /\ Cardinality(matching) <= 1
                /\ \A k \in matching :
                      data[i] = MatchedRow(StructMatch(patterns[k], entry))

\* extracted rows of a chat in which one logical message is matched by one
\* pattern and another by none
C24_Witness ==
    /\ pc = "enhance"
    /\ \E i, j \in 1..Len(grouped) :
          /\ Cardinality(FirstMatching(clean_text(grouped[i]))) = 1
          /\ FirstMatching(clean_text(grouped[j])) = {}

\* the code points of a body classified as emoji
EmojiCodePoints(text) == {j \in 1..Len(text) : is_emoji(text[j])}

\* C25: emoji_count is the number of code points of the body classified as
\* emoji, whether the emoji package is installed or the Unicode ranges are
\* used (k adjacent emoji count k), and has_emoji holds iff emoji_count > 0.
C25_EmojiCountIsCodePoints ==
    pc = "done" =>
        \A i \in 1..Len(df) :
            /\ df[i].emoji_count = Cardinality(EmojiCodePoints(df[i].message))
            /\ df[i].has_emoji <=> df[i].emoji_count > 0

\* the users of the busy-user counts and of the percentage table
RankedUsers ==
    {fetched.busy_users[i].user : i \in 1..Len(fetched.busy_users)}
        \cup {fetched.percentage_df[i].User :
                 i \in 1..Len(fetched.percentage_df)}

\* C26: fetch_busy_users filters out notifications: the records of a Dataset
\* whose user is the sentinel 'system_notification' are in neither the
\* busy-user counts nor the percentage table.
C26_NotificationsExcluded ==
    (pc = "fetched" /\ df # <<>>) => system_notification \notin RankedUsers

\* the boundary lines among the lines the loop of group_messages has consumed
BoundariesSeen == {j \in Boundaries : j <= idx}

\* an accumulation is in progress
Accumulating == current_msg # <<>>

\* C27: grouper state invariant: after group_messages has processed any
\* prefix of the lines, the number of flushed logical messages, plus one if an
\* accumulation is in progress, is the number of boundary lines of the prefix;
\* an accumulation is in progress iff a boundary line has been seen; and
\* every flushed or in-progress message begins with a boundary line.
C27_GrouperStateInvariant ==
    pc = "group" =>
        /\ Len(grouped) + (IF Accumulating THEN 1 ELSE 0)
              = Cardinality(BoundariesSeen)
        /\ Accumulating <=> BoundariesSeen # {}
        /\ \A k \in 1..Len(grouped) :
              /\ ReMatch(date_pattern, grouped[k])
              /\ \E j \in BoundariesSeen :
                    /\ Rank(Boundaries, j) = k
                    /\ SubSeq(grouped[k], 1, Len(normalized_lines[j]))
                          = normalized_lines[j]
        /\ Accumulating =>
              /\ ReMatch(date_pattern, current_msg)
              /\ \E j \in BoundariesSeen :
                    /\ Rank(Boundaries, j) = Len(grouped) + 1
                    /\ SubSeq(current_msg, 1, Len(normalized_lines[j]))
                          = normalized_lines[j]

\* the loop of group_messages after an orphaned line, a flushed message and
\* the start of the next one
C27_Witness ==
    /\ pc = "group"
    /\ idx >= 3
    /\ 1 \notin Boundaries
    /\ Len(grouped) >= 1
    /\ Accumulating

=============================================================================
